---- MODULE Spec2Model ----
(***************************************************************************)
(* Lead store, outbound mail and follow-up scheduler of the lead           *)
(* generation system (database.py, email_sender.py, scheduler.py,          *)
(* backend.py).                                                            *)
(*                                                                         *)
(* Time is counted in days.  An e-mail address is a sequence of            *)
(* characters.  The store is a function from row id to Lead record.        *)
(*                                                                         *)
(* Threads of the process:                                                 *)
(*   - the event loop, which runs every request handler to completion      *)
(*     (the handlers are "async def" and never await);                     *)
(*   - the scheduler's background loop threads (scheduler.py:30);          *)
(*   - the worker thread of a bulk send (backend.py:432).                  *)
(* A scan (process_followups) is not atomic: it reads the eligible leads   *)
(* in one transaction and then, lead by lead, sends and updates in         *)
(* further transactions.                                                   *)
(***************************************************************************)
EXTENDS Integers, Sequences, FiniteSets, TLC

VARIABLES
    now,         \* the clock, datetime.utcnow(), in days
    leads,       \* table "leads": row id -> Lead
    campaigns,   \* table "campaigns": campaign id -> Campaign
    count_tasks, \* campaigns whose background lead-count update is still queued
    running,     \* FollowUpScheduler.running
    thread,      \* FollowUpScheduler.thread: number of the last thread created, 0 for None
    pc,          \* position of every scanner (loop threads and the manual scan)
    snap,        \* leads_needing_followup still to be processed, per scanner
    scan_time,   \* "now" of get_leads_needing_followup, per scanner in a scan
    result,      \* outcome of the scanner's last follow-up send in this scan
    bulk,        \* filtered_leads still to be sent by the bulk worker
    call,        \* arguments of a function of agents.py or backend.py that is called
    ret,         \* what the call returned, Pending until it has
    fu_count     \* follow-up mails delivered to an address in its emailed period

storeVars == <<leads, campaigns, count_tasks>>
schedVars == <<running, thread>>
scanVars == <<pc, snap, scan_time, result>>
pureVars == <<call, ret>>
vars == <<now, leads, campaigns, count_tasks, running, thread, pc, snap, scan_time,
          result, bulk, call, ret, fu_count>>

----------------------------------------------------------------------------
(* Bounds of the model *)

\* the clock stops here
MaxTime == 7
\* loop threads the scheduler may create
MaxThreads == 3
\* search results processed by one discovery run
MaxBatch == 2
\* largest row id the leads table has handed out when a discovery run starts
MaxLeadId == 3

(* Program constants *)

FOLLOW_UP_DAYS == 7

\* None, for a string column and for a DateTime column
None == "None"
NoTime == 0 - 1

----------------------------------------------------------------------------
(* Addresses *)

AddrA == <<"a", "@", "x">>
AddrUpperA == <<"A", "@", "x">>
AddrB == <<"b", "@", "x">>
AddrBad == <<"a", "x">>

Emails == {AddrA, AddrUpperA, AddrB}

\* '@' in to_email
HasAt(e) == \E i \in 1..Len(e) : e[i] = "@"

\* config.SMTP_USERNAME: the mailbox the system sends from
SMTP_USERNAME == AddrB

\* request.email_content, the copywriter's body, and followup_body
InitialBody == "msg"
FollowupBody == "followup"

\* "if email_content:"
Truthy(s) == s # None /\ s # ""

CampaignIds == {"c1", "c2"}

----------------------------------------------------------------------------
(* database.py *)

NewLead(id, email, campaign) ==
    [id |-> id, email |-> email, campaign_id |-> campaign, status |-> "found",
     email_content |-> None, follow_up_date |-> NoTime,
     last_contacted_at |-> NoTime, sent_email_at |-> NoTime, has_replied |-> FALSE]

Ids(L) == DOMAIN L

\* session.query(Lead).filter_by(email=email): exact, case-sensitive comparison
IdsByEmail(L, email) == {i \in Ids(L) : L[i].email = email}

MinOf(S) == CHOOSE x \in S : \A y \in S : x <= y

\* .first() of a query that found a row
FirstByEmail(L, email) == MinOf(IdsByEmail(L, email))

Exists(L, email) == IdsByEmail(L, email) # {}

\* datetime.utcnow() is read once for last_contacted_at, again for
\* sent_email_at and again for follow_up_date.  The clock is counted in days
\* and may pass a day boundary between two reads.
Lags == {0, 1}

ClockReads(t) ==
    {r \in {<<t, t + j, t + j + k>> : j \in Lags, k \in Lags} : r[3] <= MaxTime}

\* the clock when update_lead_status returns
ClockAfterUpdate(L, email, status, reads) ==
    IF Exists(L, email) /\ status = "emailed" THEN reads[3] ELSE reads[1]

UpdateLeadStatus(L, email, status, email_content, reads) ==
    IF ~Exists(L, email) THEN L
    ELSE LET i == FirstByEmail(L, email)
             r1 == [L[i] EXCEPT !.status = status, !.last_contacted_at = reads[1]]
             r2 == IF Truthy(email_content)
                   THEN [r1 EXCEPT !.email_content = email_content] ELSE r1
             r3 == IF status = "emailed"
                   THEN [r2 EXCEPT !.sent_email_at = reads[2],
                                   !.follow_up_date = reads[3] + FOLLOW_UP_DAYS]
                   ELSE r2
         IN [L EXCEPT ![i] = r3]

\* Variant: the query without the has_replied filter.
NeedsFollowup_IgnoresReply(r, t) ==
    /\ r.follow_up_date # NoTime
    /\ r.follow_up_date <= t
    /\ r.status = "emailed"

\* Variant: the query without the comparison of follow_up_date with the clock.
NeedsFollowup_IgnoresDate(r, t) ==
    /\ r.follow_up_date # NoTime
    /\ r.status = "emailed"
    /\ r.has_replied = FALSE

NeedsFollowup(r, t) ==
    /\ r.follow_up_date # NoTime
    /\ r.follow_up_date <= t
    /\ r.status = "emailed"
    /\ r.has_replied = FALSE

RECURSIVE RowsOf(_, _)
\* the rows with ids in S, in id order
RowsOf(L, S) ==
    IF S = {} THEN <<>> ELSE <<L[MinOf(S)]>> \o RowsOf(L, S \ {MinOf(S)})

GetLeadsNeedingFollowup(L, t) ==
    RowsOf(L, {i \in Ids(L) : NeedsFollowup(L[i], t)})

MarkAsReplied(L, email) ==
    IF ~Exists(L, email) THEN L
    ELSE [L EXCEPT ![FirstByEmail(L, email)] =
              [@ EXCEPT !.has_replied = TRUE, !.status = "replied",
                        !.follow_up_date = NoTime]]

----------------------------------------------------------------------------
(* email_sender.py *)

\* send_email: "delivered" is the outcome of the SMTP conversation.  The
\* store is written only after server.send_message and server.quit returned.
SendEmailOk(to_email, delivered) == HasAt(to_email) /\ delivered

\* Variant: the status update is made whether or not the mail was sent.
SendEmailStore_Always(L, to_email, lead_email, body, is_followup, delivered, reads) ==
    UpdateLeadStatus(L, lead_email,
                     IF is_followup THEN "followed_up" ELSE "emailed", body, reads)

SendEmailStore(L, to_email, lead_email, body, is_followup, delivered, reads) ==
    IF SendEmailOk(to_email, delivered)
    THEN UpdateLeadStatus(L, lead_email,
                          IF is_followup THEN "followed_up" ELSE "emailed", body, reads)
    ELSE L

\* the clock when send_email returns
ClockAfterSend(L, to_email, lead_email, is_followup, delivered, reads) ==
    IF SendEmailOk(to_email, delivered)
    THEN ClockAfterUpdate(L, lead_email,
                          IF is_followup THEN "followed_up" ELSE "emailed", reads)
    ELSE reads[1]

\* Ghost: follow-up mails an address has received in its current emailed
\* period.  The period starts when its lead enters status emailed.
Min2(n) == IF n >= 2 THEN 2 ELSE n

CountAfterSend(L, to_email, lead_email, is_followup, delivered) ==
    IF ~SendEmailOk(to_email, delivered) THEN fu_count
    ELSE IF is_followup
         THEN [fu_count EXCEPT ![to_email] = Min2(@ + 1)]
         ELSE IF Exists(L, lead_email)
                 /\ L[FirstByEmail(L, lead_email)].status # "emailed"
              THEN [fu_count EXCEPT ![lead_email] = 0]
              ELSE fu_count


----------------------------------------------------------------------------
(* database.py: insertion and campaigns *)

\* Lead.id of a new row: the largest id in the table plus one
NextLeadId(L) == IF Ids(L) = {} THEN 1 ELSE (CHOOSE x \in Ids(L) : \A y \in Ids(L) : y <= x) + 1

\* Variant: the duplicate check of the loop never finds a lead.
NoLeadWithEmail_Never(L, email) == TRUE

\* get_lead_by_email(email) is None
NoLeadWithEmail(L, email) == ~Exists(L, email)

AddLead(L, email, campaign) ==
    IF Exists(L, email) THEN L
    ELSE L @@ (NextLeadId(L) :> NewLead(NextLeadId(L), email, campaign))

NewCampaign == [lead_count |-> 0]

CreateCampaign(C, campaign) ==
    IF campaign \in DOMAIN C THEN C ELSE C @@ (campaign :> NewCampaign)

LeadsOfCampaign(L, campaign) == {i \in Ids(L) : L[i].campaign_id = campaign}

UpdateCampaignLeadCount(C, L, campaign) ==
    IF campaign \in DOMAIN C
    THEN [C EXCEPT ![campaign].lead_count = Cardinality(LeadsOfCampaign(L, campaign))]
    ELSE C

\* Variant: the campaign row is deleted and its leads are kept.
DeleteCampaignStore_KeepsLeads(L, campaign) == L

\* delete_campaign: the rows of the leads table the transaction leaves
DeleteCampaignStore(L, campaign) ==
    [i \in Ids(L) \ LeadsOfCampaign(L, campaign) |-> L[i]]

\* delete_campaign: the rows of the campaigns table the transaction leaves
DeleteCampaignRow(C, campaign) == [c \in DOMAIN C \ {campaign} |-> C[c]]

\* delete_lead: the first transaction
DeleteLeadStore(L, lead_id) == [i \in Ids(L) \ {lead_id} |-> L[i]]

\* the distinct non-null campaign ids of the leads
CampaignIdsOfLeads(L) == {L[i].campaign_id : i \in Ids(L)} \ {None}

RECURSIVE UpdateCampaignLeadCounts(_, _, _)
\* update_campaign_lead_count for every campaign id of S
UpdateCampaignLeadCounts(C, L, S) ==
    IF S = {} THEN C
    ELSE LET c == CHOOSE x \in S : TRUE
         IN UpdateCampaignLeadCounts(UpdateCampaignLeadCount(C, L, c), L, S \ {c})

----------------------------------------------------------------------------
(* Processes *)

Threads == 1..MaxThreads
Manual == 0
Scanners == Threads \cup {Manual}

\* the event loop is free: no handler is running
LoopFree == pc[Manual] = "idle"

\* where a scanner goes when process_followups returns
Returned(s) == IF s = Manual THEN "idle" ELSE "sleep"

----------------------------------------------------------------------------
(* scheduler.py *)

\* FollowUpScheduler.start
Start ==
    /\ LoopFree
    /\ thread < MaxThreads
    /\ IF running
       THEN UNCHANGED <<running, thread, pc>>
       ELSE /\ running' = TRUE
            /\ thread' = thread + 1
            /\ pc' = [pc EXCEPT ![thread + 1] = "check"]
    /\ UNCHANGED <<now, storeVars, snap, scan_time, result, bulk, fu_count, call, ret>>

\* FollowUpScheduler.stop: the flag is cleared, then join(timeout=5) waits for
\* self.thread.  A thread that is at its loop test sees the flag and ends
\* within the wait; a thread in a scan or in its interval sleep outlasts it.
AfterJoin(t) == IF t = thread /\ pc[t] = "check" THEN "dead" ELSE pc[t]

Stop ==
    /\ LoopFree
    /\ running' = FALSE
    /\ pc' = [t \in Scanners |-> AfterJoin(t)]
    /\ UNCHANGED <<now, storeVars, thread, snap, scan_time, result, bulk, fu_count, call, ret>>

\* Variant: the loop does not test the flag.
LoopCheck_IgnoresFlag(t) ==
    /\ pc[t] = "check"
    /\ pc' = [pc EXCEPT ![t] = "scan"]
    /\ UNCHANGED <<now, storeVars, schedVars, snap, scan_time, result, bulk, fu_count, call, ret>>

\* _run_scheduler: "while self.running"
LoopCheck(t) ==
    /\ pc[t] = "check"
    /\ pc' = [pc EXCEPT ![t] = IF running THEN "scan" ELSE "dead"]
    /\ UNCHANGED <<now, storeVars, schedVars, snap, scan_time, result, bulk, fu_count, call, ret>>

\* _run_scheduler: time.sleep returns
LoopWake(t) ==
    /\ pc[t] = "sleep"
    /\ pc' = [pc EXCEPT ![t] = "check"]
    /\ UNCHANGED <<now, storeVars, schedVars, snap, scan_time, result, bulk, fu_count, call, ret>>

\* process_followups, first transaction: get_leads_needing_followup
ScanRead(s) ==
    LET found == GetLeadsNeedingFollowup(leads, now) IN
    /\ snap' = [snap EXCEPT ![s] = found]
    /\ IF found = <<>>
       THEN /\ pc' = [pc EXCEPT ![s] = Returned(s)]
            /\ UNCHANGED scan_time
       ELSE /\ pc' = [pc EXCEPT ![s] = "send"]
            /\ scan_time' = [scan_time EXCEPT ![s] = now]
    /\ UNCHANGED <<now, storeVars, schedVars, result, bulk, fu_count, call, ret>>

\* the background loop calls process_followups
LoopScan(t) ==
    /\ pc[t] = "scan"
    /\ ScanRead(t)

\* the for loop moves to the next lead, or process_followups returns
NextLead(s, outcome) ==
    /\ snap' = [snap EXCEPT ![s] = Tail(@)]
    /\ IF Len(snap[s]) > 1
       THEN /\ pc' = [pc EXCEPT ![s] = "send"]
            /\ result' = [result EXCEPT ![s] = outcome]
            /\ UNCHANGED scan_time
       ELSE /\ pc' = [pc EXCEPT ![s] = Returned(s)]
            /\ result' = [result EXCEPT ![s] = None]
            /\ scan_time' = [scan_time EXCEPT ![s] = NoTime]

\* the double check of process_followups, made on the lead as it was read
DoubleCheck(lead, t) ==
    /\ lead.follow_up_date # NoTime
    /\ lead.follow_up_date <= t
    /\ ~lead.has_replied

\* process_followups, one lead: the double check, then send_followup_email,
\* which writes the status on success
ScanSend(s, delivered) ==
    /\ pc[s] = "send"
    /\ LET lead == Head(snap[s]) IN
       IF DoubleCheck(lead, now)
       THEN /\ leads' = SendEmailStore(leads, lead.email, lead.email, FollowupBody,
                                       TRUE, delivered, <<now, now, now>>)
            /\ fu_count' = CountAfterSend(leads, lead.email, lead.email, TRUE, delivered)
            /\ IF SendEmailOk(lead.email, delivered)
               THEN /\ pc' = [pc EXCEPT ![s] = "clear"]
                    /\ result' = [result EXCEPT ![s] = "sent"]
                    /\ UNCHANGED <<snap, scan_time>>
               ELSE NextLead(s, "failed")
       ELSE /\ NextLead(s, result[s])
            /\ UNCHANGED <<leads, fu_count>>
    /\ UNCHANGED <<now, campaigns, count_tasks, schedVars, bulk, call, ret>>

\* the second transaction of a successful follow-up
ClearFollowUpDate(L, email) ==
    IF Exists(L, email)
    THEN [L EXCEPT ![FirstByEmail(L, email)].follow_up_date = NoTime]
    ELSE L

\* process_followups, after a successful send: follow_up_date of the row with
\* the lead's address is cleared
ScanClear(s) ==
    /\ pc[s] = "clear"
    /\ leads' = ClearFollowUpDate(leads, Head(snap[s]).email)
    /\ NextLead(s, "sent")
    /\ UNCHANGED <<now, campaigns, count_tasks, schedVars, bulk, fu_count, call, ret>>

\* Variant: an exception of a scan ends the loop thread.
AfterRaise_Propagates(s) == IF s = Manual THEN "idle" ELSE "dead"

\* where a scanner goes when get_leads_needing_followup raises: the outer
\* except clause of process_followups prints, and the call returns
AfterRaise(s) == Returned(s)

\* process_followups of the background loop, first transaction raises
ScanReadRaises(t) ==
    /\ pc[t] = "scan"
    /\ pc' = [pc EXCEPT ![t] = AfterRaise(t)]
    /\ result' = [result EXCEPT ![t] = "raised"]
    /\ UNCHANGED <<now, storeVars, schedVars, snap, scan_time, bulk, fu_count, call, ret>>

\* process_followups, after a successful send: get_session or the commit of
\* the second transaction raises; the except clause of the lead prints and
\* the for loop goes on
ScanClearRaises(s) ==
    /\ pc[s] = "clear"
    /\ NextLead(s, "raised")
    /\ UNCHANGED <<now, storeVars, schedVars, bulk, fu_count, call, ret>>

----------------------------------------------------------------------------
(* backend.py *)

\* POST /api/followup/check
CheckFollowups ==
    /\ LoopFree
    /\ ScanRead(Manual)

\* POST /api/followup/check when the first transaction of the scan raises
CheckFollowupsRaises ==
    /\ LoopFree
    /\ pc' = [pc EXCEPT ![Manual] = AfterRaise(Manual)]
    /\ result' = [result EXCEPT ![Manual] = "raised"]
    /\ UNCHANGED <<now, storeVars, schedVars, snap, scan_time, bulk, fu_count, call, ret>>

\* POST /api/email/send
SendLeadEmail(lead_email, delivered, reads) ==
    /\ LoopFree
    /\ reads \in ClockReads(now)
    /\ leads' = SendEmailStore(leads, lead_email, lead_email, InitialBody, FALSE,
                               delivered, reads)
    /\ now' = ClockAfterSend(leads, lead_email, lead_email, FALSE, delivered, reads)
    /\ fu_count' = CountAfterSend(leads, lead_email, lead_email, FALSE, delivered)
    /\ UNCHANGED <<campaigns, count_tasks, schedVars, scanVars, bulk, call, ret>>

\* POST /api/email/test
TestEmail(delivered, reads) ==
    /\ LoopFree
    /\ reads \in ClockReads(now)
    /\ leads' = SendEmailStore(leads, SMTP_USERNAME, SMTP_USERNAME, InitialBody, FALSE,
                               delivered, reads)
    /\ now' = ClockAfterSend(leads, SMTP_USERNAME, SMTP_USERNAME, FALSE, delivered, reads)
    /\ fu_count' = CountAfterSend(leads, SMTP_USERNAME, SMTP_USERNAME, FALSE, delivered)
    /\ UNCHANGED <<campaigns, count_tasks, schedVars, scanVars, bulk, call, ret>>

\* PUT /api/leads/{lead_id}/replied
MarkLeadReplied(lead_id) ==
    /\ LoopFree
    /\ leads' = IF lead_id \in Ids(leads)
                THEN MarkAsReplied(leads, leads[lead_id].email)
                ELSE leads
    /\ UNCHANGED <<now, campaigns, count_tasks, schedVars, scanVars, bulk, fu_count, call, ret>>

RECURSIVE EmailsOf(_)
EmailsOf(rows) == IF rows = <<>> THEN <<>> ELSE <<Head(rows).email>> \o EmailsOf(Tail(rows))

\* the filters of send_bulk_emails
BulkFilter(L, status_filter, exclude_replied) ==
    RowsOf(L, {i \in Ids(L) :
                 /\ (status_filter # {} => L[i].status \in status_filter)
                 /\ (exclude_replied => ~L[i].has_replied)})

\* POST /api/email/bulk: the leads are filtered now and sent by a worker later
SendBulkEmails(status_filter, exclude_replied) ==
    /\ LoopFree
    /\ bulk = <<>>
    /\ bulk' = EmailsOf(BulkFilter(leads, status_filter, exclude_replied))
    /\ UNCHANGED <<now, storeVars, schedVars, scanVars, fu_count, call, ret>>

\* send_bulk, one lead
BulkStep(delivered, reads) ==
    /\ bulk # <<>>
    /\ reads \in ClockReads(now)
    /\ leads' = SendEmailStore(leads, Head(bulk), Head(bulk), InitialBody, FALSE,
                               delivered, reads)
    /\ now' = ClockAfterSend(leads, Head(bulk), Head(bulk), FALSE, delivered, reads)
    /\ fu_count' = CountAfterSend(leads, Head(bulk), Head(bulk), FALSE, delivered)
    /\ bulk' = Tail(bulk)
    /\ UNCHANGED <<campaigns, count_tasks, schedVars, scanVars, call, ret>>

\* `if not email` after company_data.get("email") and the guess
NoEmail == <<>>

\* One search result as the loop of discover_leads sees it: its URL, whether
\* scrape_website returned data, the address extracted or guessed (NoEmail
\* when there is none), where its processing raises ("no": nowhere,
\* "scrape": before the store is looked at, "report": while the entry of
\* the response is built, after add_lead), and what validate_lead does
\* ("none": not called, the record has no company_name).
ResultItem(url, data, email, raises, verdict) ==
    [url |-> url, data |-> data, email |-> email, raises |-> raises, verdict |-> verdict]

ResultItems ==
    {ResultItem("", FALSE, AddrA, "no", "true"), ResultItem("u", FALSE, AddrA, "no", "true"),
     ResultItem("u", TRUE, AddrA, "scrape", "true")}
    \cup {ResultItem("u", TRUE, e, "no", "true") : e \in Emails}

RECURSIVE SeqsUpTo(_, _)
SeqsUpTo(S, n) ==
    IF n = 0 THEN {<<>>}
    ELSE SeqsUpTo(S, n - 1) \cup {Append(q, x) : q \in {r \in SeqsUpTo(S, n - 1) : Len(r) = n - 1}, x \in S}

\* Variant: a lead the validator rejects, or fails on, is dropped.
ValidatorLetsThrough_Strict(item) == item.verdict \in {"none", "true"}

\* backend.py:251-262: whether the loop goes on to add_lead after the
\* validator block.  The `continue` after a rejection is commented out and
\* an exception of validate_lead is caught.
ValidatorLetsThrough(item) ==
    IF item.verdict = "none" THEN TRUE
    ELSE IF item.verdict = "raise" THEN TRUE
    ELSE IF item.verdict = "false" THEN TRUE
    ELSE TRUE

\* whether the loop body reaches db.add_lead with a new address
ReachesAddLead(L, item) ==
    /\ item.url # ""
    /\ item.raises # "scrape"
    /\ item.data
    /\ item.email # NoEmail
    /\ NoLeadWithEmail(L, item.email)
    /\ ValidatorLetsThrough(item)

\* how the loop body ends for one result
ItemOutcome(L, item) ==
    IF item.url = "" THEN "no_url"
    ELSE IF item.raises = "scrape" THEN "error"
    ELSE IF ~item.data THEN "no_content"
    ELSE IF item.email = NoEmail THEN "no_email"
    ELSE IF ~NoLeadWithEmail(L, item.email) THEN "duplicate"
    ELSE IF ~ValidatorLetsThrough(item) THEN "rejected"
    ELSE IF item.raises = "report" THEN "error"
    ELSE "added"

\* the body of the for loop of discover_leads: the store it leaves
ProcessItem(L, item, campaign) ==
    IF ReachesAddLead(L, item) THEN AddLead(L, item.email, campaign) ELSE L

RECURSIVE RunLoop_StopsAtError(_, _, _, _)
\* Variant: an exception of one result ends the loop.
RunLoop_StopsAtError(L, items, campaign, outcomes) ==
    IF items = <<>> \/ (outcomes # <<>> /\ outcomes[Len(outcomes)] = "error")
    THEN [leads |-> L, outcomes |-> outcomes]
    ELSE RunLoop_StopsAtError(ProcessItem(L, Head(items), campaign), Tail(items), campaign,
                              Append(outcomes, ItemOutcome(L, Head(items))))

RECURSIVE RunLoop(_, _, _, _)
\* the for loop of discover_leads: the store it leaves and how each result ended
RunLoop(L, items, campaign, outcomes) ==
    IF items = <<>>
    THEN [leads |-> L, outcomes |-> outcomes]
    ELSE RunLoop(ProcessItem(L, Head(items), campaign), Tail(items), campaign,
                 Append(outcomes, ItemOutcome(L, Head(items))))

ProcessItems(L, items, campaign) == RunLoop(L, items, campaign, <<>>).leads

Outcomes(L, items, campaign) == RunLoop(L, items, campaign, <<>>).outcomes

RECURSIVE AddedEmails(_, _)
\* the "leads" list of the response: the addresses appended after add_lead
AddedEmails(items, outcomes) ==
    IF items = <<>> \/ outcomes = <<>> THEN <<>>
    ELSE (IF Head(outcomes) = "added" THEN <<Head(items).email>> ELSE <<>>)
         \o AddedEmails(Tail(items), Tail(outcomes))

\* the loop of discover_leads and the "leads" list of its response
RunBatch(L, items, campaign) ==
    [leads |-> ProcessItems(L, items, campaign),
     outcomes |-> Outcomes(L, items, campaign),
     report |-> AddedEmails(items, Outcomes(L, items, campaign))]

\* uuid4: an identifier no campaign has
FreshCampaigns(C) == CampaignIds \ DOMAIN C

\* POST /api/leads/discover.  requested is request.campaign_id.
DiscoverLeads(requested, campaign, results) ==
    /\ LoopFree
    /\ IF requested # None
       THEN campaign = requested
       ELSE campaign \in FreshCampaigns(campaigns)
    /\ IF requested # None /\ requested \notin DOMAIN campaigns
       THEN UNCHANGED <<leads, campaigns, count_tasks>>
       ELSE /\ campaigns' = CreateCampaign(campaigns, campaign)
            /\ leads' = ProcessItems(leads, results, campaign)
            /\ count_tasks' = IF results = <<>> THEN count_tasks
                              ELSE count_tasks \cup {campaign}
    /\ UNCHANGED <<now, schedVars, scanVars, bulk, fu_count, call, ret>>

\* the background task db.update_campaign_lead_count of a discovery run
RunCountTask(campaign) ==
    /\ campaign \in count_tasks
    /\ campaigns' = UpdateCampaignLeadCount(campaigns, leads, campaign)
    /\ count_tasks' = count_tasks \ {campaign}
    /\ UNCHANGED <<now, leads, schedVars, scanVars, bulk, fu_count, call, ret>>

\* DELETE /api/leads/{lead_id}
DeleteLead(lead_id) ==
    /\ LoopFree
    /\ IF lead_id \in Ids(leads)
       THEN /\ leads' = DeleteLeadStore(leads, lead_id)
            /\ campaigns' = IF leads[lead_id].campaign_id # None
                            THEN UpdateCampaignLeadCount(campaigns, leads',
                                                         leads[lead_id].campaign_id)
                            ELSE campaigns
       ELSE UNCHANGED <<leads, campaigns>>
    /\ UNCHANGED <<now, count_tasks, schedVars, scanVars, bulk, fu_count, call, ret>>

\* DELETE /api/leads
DeleteAllLeads ==
    /\ LoopFree
    /\ leads' = <<>>
    /\ campaigns' = UpdateCampaignLeadCounts(campaigns, leads', CampaignIdsOfLeads(leads))
    /\ UNCHANGED <<now, count_tasks, schedVars, scanVars, bulk, fu_count, call, ret>>

\* DELETE /api/campaigns/{campaign_id}
DeleteCampaign(campaign) ==
    /\ LoopFree
    /\ IF campaign \in DOMAIN campaigns
       THEN /\ leads' = DeleteCampaignStore(leads, campaign)
            /\ campaigns' = DeleteCampaignRow(campaigns, campaign)
       ELSE UNCHANGED <<leads, campaigns>>
    /\ UNCHANGED <<now, count_tasks, schedVars, scanVars, bulk, fu_count, call, ret>>

----------------------------------------------------------------------------
(* agents.py: LeadDiscoveryAgent *)

\* range(min(max_results, 5))
MockCap == 5

Min(a, b) == IF a <= b THEN a ELSE b

\* Variant: the placeholder list is one entry short.
GenerateMockResults_OneShort(query, max_results) ==
    [i \in 1..(Min(max_results, MockCap) - 1) |->
        [title |-> <<"Company", i, query>>, url |-> <<"example-company", i>>,
         content |-> query, score |-> 8 - (i - 1), valid |-> TRUE, kind |-> "mock"]]

\* _generate_mock_results; the score is in tenths
GenerateMockResults(query, max_results) ==
    [i \in 1..Min(max_results, MockCap) |->
        [title |-> <<"Company", i, query>>, url |-> <<"example-company", i>>,
         content |-> query, score |-> 8 - (i - 1), valid |-> TRUE, kind |-> "mock"]]

\* Scores are counted in tenths.
Clamp(x) == IF x < 1 THEN 1 ELSE IF x > 10 THEN 10 ELSE x

\* _calculate_relevance_score.  hit.business: the business terms found in
\* the URL or the title; hit.matches: the words of the query found in the
\* title; hit.generic: the generic terms found in the title or the URL.
RelevanceScore(hit) ==
    Clamp(10 + 2 * hit.business + hit.matches - hit.generic)

\* the entry appended for a hit: an organic hit is scored by
\* _calculate_relevance_score, a hit of the secondary provider keeps the
\* score of the response (0 when it has none)
ResultOf(hit) ==
    IF hit.kind = "organic" THEN [hit EXCEPT !.score = RelevanceScore(hit)] ELSE hit

RECURSIVE FilterHits(_, _, _)
\* the loop over a provider's results: a hit that passes
\* _is_valid_business_website is appended, and the loop breaks once
\* max_results hits have been appended
FilterHits(hits, max_results, results) ==
    IF hits = <<>> THEN results
    ELSE IF Head(hits).valid
         THEN IF Len(results) + 1 >= max_results
              THEN Append(results, ResultOf(Head(hits)))
              ELSE FilterHits(Tail(hits), max_results,
                              Append(results, ResultOf(Head(hits))))
         ELSE FilterHits(Tail(hits), max_results, results)

\* the knowledge graph entry of a primary response
KgHit(valid) == [kind |-> "kg", valid |-> valid, score |-> 10]

\* the primary branch of search_companies, given a response that did not raise
PrimaryResults(response, max_results) ==
    LET organic == FilterHits(response.organic, max_results, <<>>)
    IN IF response.kg = "valid" THEN <<KgHit(TRUE)>> \o organic ELSE organic

\* the secondary branch, given a response that did not raise
SecondaryResults(response, max_results) ==
    IF response.status = 200 THEN FilterHits(response.results, max_results, <<>>) ELSE <<>>

\* search_companies.  c.serpapi: self.serpapi_key and SERPAPI_AVAILABLE;
\* c.tavily: self.tavily_api_key; c.primary, c.secondary: what the provider
\* answers if it is called.  tried lists the providers called.
SearchCompanies(c) ==
    IF c.serpapi
    THEN IF c.primary.raises
         THEN [results |-> GenerateMockResults(c.query, c.max_results),
               tried |-> <<"primary">>, placeholder |-> TRUE]
         ELSE [results |-> PrimaryResults(c.primary, c.max_results),
               tried |-> <<"primary">>, placeholder |-> FALSE]
    ELSE IF c.tavily
    THEN IF c.secondary.raises
         THEN [results |-> GenerateMockResults(c.query, c.max_results),
               tried |-> <<"secondary">>, placeholder |-> TRUE]
         ELSE [results |-> SecondaryResults(c.secondary, c.max_results),
               tried |-> <<"secondary">>, placeholder |-> FALSE]
    ELSE [results |-> GenerateMockResults(c.query, c.max_results),
          tried |-> <<>>, placeholder |-> TRUE]

----------------------------------------------------------------------------
(* agents.py: LeadEnrichmentAgent.scrape_website *)

\* both scraping paths read the first three pages of the list only
PageCap == 3

\* the pages of a site are named by their path; "/" is the homepage
RestaurantPages ==
    <<"/", "/contact", "/reservations", "/book-a-table", "/about", "/menu">>

GeneralPages == <<"/", "/contact", "/about", "/company", "/team">>

\* pages_to_scrape: the homepage, then the pages chosen by the kind of site
PagesToScrape(restaurant) ==
    IF restaurant THEN RestaurantPages ELSE GeneralPages

PageSet(urls) == {urls[k] : k \in 1..Len(urls)}

\* Variant: every page of the list is read.
FetchedPages_All(urls) == urls

\* [urls[0]] + urls[1:3] of the primary path, urls[:3] of the direct path
FetchedPages(urls) == SubSeq(urls, 1, Min(Len(urls), PageCap))

\* the pages read, in order, that gave usable content
SuccessfulPages(urls, usable) ==
    LET Usable(u) == u \in usable
    IN SelectSeq(FetchedPages(urls), Usable)

\* what scrape_website returns when it returns None
ScrapeFailure == [failed |-> TRUE, scraped_pages |-> <<>>, path |-> "none"]

\* _extract_info_from_content over the pages that were read: it always
\* returns a record, so the caller's test of its result succeeds
ScrapedData(pages, path) ==
    [failed |-> FALSE, scraped_pages |-> pages, path |-> path]

\* usable: the pages for which the provider answers 200 with markdown
DeepScrapeWithFirecrawl(urls, usable) ==
    LET pages == SuccessfulPages(urls, usable)
    IN IF pages # <<>> THEN ScrapedData(pages, "primary") ELSE ScrapeFailure

\* usable: the pages that answer 200 with more than 100 characters of text
DeepScrapeWithRequests(urls, usable) ==
    LET pages == SuccessfulPages(urls, usable)
    IN IF pages # <<>> THEN ScrapedData(pages, "direct") ELSE ScrapeFailure

\* c.url_ok is false when _normalize_url raises on the address
ScrapeWebsite(c) ==
    IF ~c.url_ok THEN ScrapeFailure
    ELSE LET urls == PagesToScrape(c.restaurant)
             primary == IF c.firecrawl_api_key
                        THEN DeepScrapeWithFirecrawl(urls, c.fc_usable)
                        ELSE ScrapeFailure
         IN IF ~primary.failed THEN primary
            ELSE DeepScrapeWithRequests(urls, c.rq_usable)

----------------------------------------------------------------------------
(* agents.py: the requests of the two scraping paths, one at a time.       *)
(* A fetch is the record of its position: the page it is at (an index into *)
(* the pages it reads), the attempt (from 0), retry_delay, the requests    *)
(* made so far, the pages that gave content, and what the last request     *)
(* met and how long the fetch slept after it.                              *)

\* max_retries of _deep_scrape_with_firecrawl
MaxRetries == 2

\* what a request to the primary provider may meet: 200 with markdown, 200
\* without, 429, another status, a timeout, another RequestException, any
\* other exception
FirecrawlOutcomes ==
    {"ok", "empty", "status429", "status_other", "timeout", "network", "error"}

\* what a request of the direct path may meet: 200 with more than 100
\* characters of text, anything else that returns, an exception
DirectOutcomes == {"ok", "unusable", "error"}

StartFetch(urls) ==
    [i |-> 1, attempt |-> 0, retry_delay |-> 1, asked |-> <<>>, successful |-> <<>>,
     last |-> "none", wait |-> 0, done |-> FetchedPages(urls) = <<>>]

\* Variant: one more attempt is allowed.
RetryAllowed_OneMore(attempt) == attempt < MaxRetries

\* "if attempt < max_retries - 1", and the end of range(max_retries)
RetryAllowed(attempt) == attempt < MaxRetries - 1

\* Variant: a 429 waits as long as a timeout.
WaitAfter_Same(outcome, attempt, retry_delay) ==
    IF ~RetryAllowed(attempt) THEN 0
    ELSE IF outcome \in {"status429", "timeout", "network"} THEN retry_delay
    ELSE 0

\* the time.sleep made after a request
WaitAfter(outcome, attempt, retry_delay) ==
    IF ~RetryAllowed(attempt) THEN 0
    ELSE IF outcome = "status429" THEN retry_delay * 2
    ELSE IF outcome \in {"timeout", "network"} THEN retry_delay
    ELSE 0

\* whether the attempts for the page end with this request: break on
\* success and on an exception that is not a RequestException, or no
\* attempt is left
PageEnds(outcome, attempt) ==
    outcome \in {"ok", "error"} \/ ~RetryAllowed(attempt)

\* one pass through the body of "for attempt in range(max_retries)"
FirecrawlAttempt(st, urls, outcome) ==
    LET pages == FetchedPages(urls)
        url == pages[st.i]
        asked == Append(st.asked, url)
        successful == IF outcome = "ok" THEN Append(st.successful, url)
                      ELSE st.successful
    IN IF PageEnds(outcome, st.attempt)
       THEN [i |-> st.i + 1, attempt |-> 0, retry_delay |-> 1, asked |-> asked,
             successful |-> successful, last |-> outcome, wait |-> 0,
             done |-> st.i + 1 > Len(pages)]
       ELSE [i |-> st.i, attempt |-> st.attempt + 1,
             retry_delay |-> IF outcome \in {"timeout", "network"}
                             THEN st.retry_delay * 2 ELSE st.retry_delay,
             asked |-> asked, successful |-> successful, last |-> outcome,
             wait |-> WaitAfter(outcome, st.attempt, st.retry_delay),
             done |-> FALSE]

\* one pass through the body of "for url in urls[:3]"
DirectRequest(st, urls, outcome) ==
    LET pages == FetchedPages(urls)
        url == pages[st.i]
    IN [i |-> st.i + 1, attempt |-> 0, retry_delay |-> 1,
        asked |-> Append(st.asked, url),
        successful |-> IF outcome = "ok" THEN Append(st.successful, url)
                       ELSE st.successful,
        last |-> outcome, wait |-> 0, done |-> st.i + 1 > Len(pages)]

----------------------------------------------------------------------------
(* agents.py: LeadEnrichmentAgent._extract_info_from_content *)
(* A text is a sequence of characters; the empty text is <<>>.             *)

LowerLetters ==
    <<"a", "b", "c", "d", "e", "f", "g", "h", "i", "j", "k", "l", "m", "n", "o", "p", "q", "r", "s", "t", "u", "v", "w", "x", "y", "z">>

UpperLetters ==
    <<"A", "B", "C", "D", "E", "F", "G", "H", "I", "J", "K", "L", "M", "N", "O", "P", "Q", "R", "S", "T", "U", "V", "W", "X", "Y", "Z">>

IsLower(c) == \E k \in 1..Len(LowerLetters) : LowerLetters[k] = c

IsUpper(c) == \E k \in 1..Len(UpperLetters) : UpperLetters[k] = c

IsCased(c) == IsLower(c) \/ IsUpper(c)

ToUpper(c) ==
    IF IsLower(c)
    THEN UpperLetters[CHOOSE k \in 1..Len(LowerLetters) : LowerLetters[k] = c]
    ELSE c

ToLower(c) ==
    IF IsUpper(c)
    THEN LowerLetters[CHOOSE k \in 1..Len(UpperLetters) : UpperLetters[k] = c]
    ELSE c

\* str.title(): a letter that follows a letter is lowered, any other letter
\* is raised
Title(s) ==
    [k \in 1..Len(s) |->
        IF k > 1 /\ IsCased(s[k - 1]) THEN ToLower(s[k]) ELSE ToUpper(s[k])]

StartsWith(s, prefix) ==
    Len(s) >= Len(prefix) /\ SubSeq(s, 1, Len(prefix)) = prefix

\* s[n:]
Drop(s, n) == SubSeq(s, n + 1, Len(s))

\* str.replace(old, ""): every occurrence of old is removed, left to right
RECURSIVE Remove(_, _)
Remove(s, old) ==
    IF s = <<>> THEN <<>>
    ELSE IF StartsWith(s, old) THEN Remove(Drop(s, Len(old)), old)
    ELSE <<Head(s)>> \o Remove(Tail(s), old)

\* str.split(sep)[0]
RECURSIVE BeforeFirst(_, _)
BeforeFirst(s, sep) ==
    IF s = <<>> \/ StartsWith(s, sep) THEN <<>>
    ELSE <<Head(s)>> \o BeforeFirst(Tail(s), sep)

\* str.split(sep)[-1], for a text in which no two occurrences of sep overlap
AfterLast(s, sep) ==
    LET starts == {k \in 1..Len(s) : StartsWith(Drop(s, k - 1), sep)}
    IN IF starts = {} THEN s
       ELSE Drop(s, (CHOOSE k \in starts : \A j \in starts : j <= k)
                        + Len(sep) - 1)

Www == <<"w", "w", "w", ".">>

ContactAt == <<"c", "o", "n", "t", "a", "c", "t", "@">>

NullText == <<"n", "u", "l", "l">>

\* url.split("//")[-1].split("/")[0]
NetlocOf(url) == BeforeFirst(AfterLast(url, <<"/", "/">>), <<"/">>)

\* _guess_email_from_url: the three lists of patterns all start with
\* contact@, so the content does not change the answer
GuessEmailFromUrl(url) ==
    LET domain == NetlocOf(url)
    IN ContactAt \o (IF StartsWith(domain, Www) THEN Drop(domain, 4) ELSE domain)

\* scraped_pages or [base_url]
ScrapedPagesOr(c) ==
    IF c.scraped_pages = <<>> THEN <<c.base_url>> ELSE c.scraped_pages

\* the record of the except branch
FallbackRecord(c) ==
    [company_name |->
         Title(BeforeFirst(Remove(NetlocOf(c.base_url), Www), <<".">>)),
     website_url |-> c.base_url,
     email |-> GuessEmailFromUrl(c.base_url),
     source_url |-> c.base_url,
     scraped_pages |-> ScrapedPagesOr(c)]

\* c.llm is "raises" when the generative call fails, "unparseable" when
\* json.loads rejects its answer, "not_object" when the answer is JSON but
\* not an object (the first .get raises), and "object" otherwise, with the
\* object in c.record; c.found is what _find_email_in_content returns
ExtractInfoFromContent(c) ==
    IF c.llm # "object" THEN FallbackRecord(c)
    ELSE LET info == c.record
             missing == info.email = <<>> \/ info.email = NullText
         IN [company_name |-> info.company_name,
             website_url |-> IF info.website_url = <<>> THEN c.base_url
                             ELSE info.website_url,
             email |-> IF ~missing THEN info.email
                       ELSE IF c.found # NoEmail THEN c.found
                       ELSE GuessEmailFromUrl(c.base_url),
             source_url |-> c.base_url,
             scraped_pages |-> ScrapedPagesOr(c)]

----------------------------------------------------------------------------
(* agents.py: LeadValidatorAgent *)
(* A key of the profile is <<"missing">>, <<"null">> (present with the     *)
(* value None) or <<"text", t>>.                                           *)

Missing == <<"missing">>

Null == <<"null">>

Text(t) == <<"text", t>>

\* str.lower()
Lower(s) == [k \in 1..Len(s) |-> ToLower(s[k])]

\* str.strip() for texts whose only white space is the blank
RECURSIVE LStrip(_)
LStrip(s) == IF s # <<>> /\ Head(s) = " " THEN LStrip(Tail(s)) ELSE s

RECURSIVE RStrip(_)
RStrip(s) ==
    IF s # <<>> /\ s[Len(s)] = " " THEN RStrip(SubSeq(s, 1, Len(s) - 1)) ELSE s

Strip(s) == RStrip(LStrip(s))

\* sub in s
Contains(s, sub) == \E k \in 1..Len(s) : StartsWith(Drop(s, k - 1), sub)

\* lead_info.get(key, "").lower(): None has no lower(), so the call raises
GetLowerRaises(field) == field = Null

GetLower(field) == IF field = Missing THEN <<>> ELSE Lower(field[2])

\* str(lead_info.get("description", "")).lower(): str(None) is "None"
DescriptionLower(field) ==
    IF field = Missing THEN <<>>
    ELSE IF field = Null THEN <<"n", "o", "n", "e">>
    ELSE Lower(field[2])

\* "yes" in answer or answer.startswith("y")
IsValid(answer) ==
    Contains(answer, <<"y", "e", "s">>) \/ StartsWith(answer, <<"y">>)

\* c.llm is <<"raises">> when the generative call fails and
\* <<"answer", t>> when it answers t.  The three reads of the profile stand
\* before the try.
ValidateLead(c) ==
    IF GetLowerRaises(c.company_name) \/ GetLowerRaises(c.website_url)
    THEN [raised |-> TRUE, value |-> FALSE]
    ELSE LET company_name == GetLower(c.company_name)
             description == DescriptionLower(c.description)
         IN IF company_name = <<>> /\ description = <<>>
            THEN [raised |-> FALSE, value |-> TRUE]
            ELSE IF c.llm[1] = "raises"
            THEN [raised |-> FALSE, value |-> TRUE]
            ELSE [raised |-> FALSE,
                  value |-> IsValid(Strip(Lower(c.llm[2])))]

----------------------------------------------------------------------------
(* agents.py: LeadDiscoveryAgent._is_valid_business_website *)

ExcludedDomains ==
    {<<"r", "e", "d", "d", "i", "t", ".", "c", "o", "m">>,
     <<"q", "u", "o", "r", "a", ".", "c", "o", "m">>,
     <<"m", "e", "d", "i", "u", "m", ".", "c", "o", "m">>,
     <<"l", "i", "n", "k", "e", "d", "i", "n", ".", "c", "o", "m", "/", "p", "o", "s", "t", "s">>,
     <<"f", "a", "c", "e", "b", "o", "o", "k", ".", "c", "o", "m">>,
     <<"t", "w", "i", "t", "t", "e", "r", ".", "c", "o", "m">>, <<"x", ".", "c", "o", "m">>,
     <<"t", "r", "i", "p", "a", "d", "v", "i", "s", "o", "r", ".", "c", "o", "m">>,
     <<"y", "e", "l", "p", ".", "c", "o", "m">>,
     <<"z", "o", "m", "a", "t", "o", ".", "c", "o", "m">>,
     <<"t", "i", "m", "e", "o", "u", "t", ".", "c", "o", "m">>,
     <<"c", "n", "t", "r", "a", "v", "e", "l", "l", "e", "r", ".", "c", "o", "m">>,
     <<"m", "i", "c", "h", "e", "l", "i", "n", ".", "c", "o", "m">>,
     <<"t", "h", "e", "w", "o", "r", "l", "d", "s", "5", "0", "b", "e", "s", "t", ".", "c", "o", "m">>,
     <<"s", "e", "a", "s", "o", "n", "e", "d", "t", "r", "a", "v", "e", "l", "l", "e", "r", ".", "c", "o", "m">>,
     <<"q", "i", "c", ".", "o", "n", "l", "i", "n", "e">>,
     <<"g", "u", "i", "d", "e", ".", "m", "i", "c", "h", "e", "l", "i", "n", ".", "c", "o", "m">>,
     <<".", "b", "l", "o", "g">>,
     <<"w", "o", "r", "d", "p", "r", "e", "s", "s", ".", "c", "o", "m">>,
     <<"s", "u", "b", "s", "t", "a", "c", "k", ".", "c", "o", "m">>,
     <<"w", "e", "l", "l", "f", "o", "u", "n", "d", ".", "c", "o", "m">>,
     <<"a", "n", "g", "e", "l", ".", "c", "o">>,
     <<"c", "r", "u", "n", "c", "h", "b", "a", "s", "e", ".", "c", "o", "m">>,
     <<"p", "i", "t", "c", "h", "b", "o", "o", "k", ".", "c", "o", "m">>,
     <<"b", "l", "o", "o", "m", "b", "e", "r", "g", ".", "c", "o", "m">>,
     <<"r", "e", "u", "t", "e", "r", "s", ".", "c", "o", "m">>,
     <<"f", "o", "r", "b", "e", "s", ".", "c", "o", "m">>,
     <<"t", "e", "c", "h", "c", "r", "u", "n", "c", "h", ".", "c", "o", "m">>,
     <<"w", "i", "k", "i", "p", "e", "d", "i", "a", ".", "o", "r", "g">>,
     <<"w", "i", "k", "i", "m", "e", "d", "i", "a", ".", "o", "r", "g">>}

ExcludedPaths ==
    {<<"/", "p", "o", "s", "t", "/">>, <<"/", "p", "o", "s", "t", "s", "/">>,
     <<"/", "a", "r", "t", "i", "c", "l", "e", "/">>,
     <<"/", "a", "r", "t", "i", "c", "l", "e", "s", "/">>, <<"/", "b", "l", "o", "g", "/">>,
     <<"/", "n", "e", "w", "s", "/">>, <<"/", "s", "t", "o", "r", "y", "/">>,
     <<"/", "s", "t", "o", "r", "i", "e", "s", "/">>, <<"/", "r", "e", "v", "i", "e", "w", "/">>,
     <<"/", "r", "e", "v", "i", "e", "w", "s", "/">>, <<"/", "l", "i", "s", "t", "/">>,
     <<"/", "l", "i", "s", "t", "s", "/">>, <<"/", "g", "u", "i", "d", "e", "/">>,
     <<"/", "g", "u", "i", "d", "e", "s", "/">>}

PlatformSubdomains ==
    {<<".", "m", "e", "d", "i", "u", "m", ".", "c", "o", "m">>,
     <<".", "w", "o", "r", "d", "p", "r", "e", "s", "s", ".", "c", "o", "m">>,
     <<".", "b", "l", "o", "g", "s", "p", "o", "t", ".", "c", "o", "m">>,
     <<".", "t", "u", "m", "b", "l", "r", ".", "c", "o", "m">>,
     <<".", "w", "i", "x", "s", "i", "t", "e", ".", "c", "o", "m">>,
     <<".", "s", "q", "u", "a", "r", "e", "s", "p", "a", "c", "e", ".", "c", "o", "m">>}

\* str.count(ch)
Count(s, ch) == Cardinality({k \in 1..Len(s) : s[k] = ch})

\* the loop over excluded_paths: a URL with one of them is refused unless
\* it has at most three slashes
PathRefused(url_lower) ==
    \E path \in ExcludedPaths :
        Contains(url_lower, path) /\ Count(url_lower, "/") > 3

\* _is_valid_business_website(url, title); the title is lowered and not used
IsValidBusinessWebsite(url) ==
    LET url_lower == Lower(url)
    IN IF url = <<>> THEN FALSE
       ELSE IF \E domain \in ExcludedDomains : Contains(url_lower, domain) THEN FALSE
       ELSE IF PathRefused(url_lower) THEN FALSE
       ELSE IF Count(url_lower, ".") < 2 THEN TRUE
       ELSE IF \E prefix \in {<<"h", "t", "t", "p", ":", "/", "/", "w", "w", "w", ".">>, <<"h", "t", "t", "p", "s", ":", "/", "/", "w", "w", "w", ".">>,
                              <<"h", "t", "t", "p", ":", "/", "/", "b", "l", "o", "g", ".">>, <<"h", "t", "t", "p", "s", ":", "/", "/", "b", "l", "o", "g", ".">>} :
                  StartsWith(url_lower, prefix)
            THEN TRUE
       ELSE IF \E platform \in PlatformSubdomains : Contains(url_lower, platform)
            THEN FALSE
       ELSE TRUE

----------------------------------------------------------------------------
(* The clock *)

Tick ==
    /\ now < MaxTime
    /\ now' = now + 1
    /\ UNCHANGED <<storeVars, schedVars, scanVars, bulk, fu_count, call, ret>>

----------------------------------------------------------------------------
(* Spec: the running service.  The store holds two leads found by an       *)
(* earlier discovery run, and backend.py has started the scheduler at      *)
(* import.                                                                 *)

StoredLeads == AddLead(AddLead(<<>>, AddrA, "c1"), AddrB, "c1")

StoredCampaigns == UpdateCampaignLeadCount(CreateCampaign(<<>>, "c1"), StoredLeads, "c1")

InitScanners ==
    /\ snap = [s \in Scanners |-> <<>>]
    /\ scan_time = [s \in Scanners |-> NoTime]
    /\ result = [s \in Scanners |-> None]

InitIdle ==
    /\ now = 0
    /\ InitScanners
    /\ bulk = <<>>
    /\ count_tasks = {}
    /\ fu_count = [e \in Emails |-> 0]

\* no function call is being followed
NoCall == call = <<>> /\ ret = <<>>

\* backend.py:49, scheduler.start(check_interval_minutes=15)
InitStarted ==
    /\ running = TRUE
    /\ thread = 1
    /\ pc = [s \in Scanners |-> IF s = Manual THEN "idle"
                                 ELSE IF s = 1 THEN "check" ELSE "unborn"]

Init ==
    /\ InitIdle
    /\ InitStarted
    /\ leads = StoredLeads
    /\ campaigns = StoredCampaigns
    /\ NoCall

Next ==
    \/ Tick
    \/ \E e \in Emails \cup {AddrBad}, d \in BOOLEAN, r \in ClockReads(now) :
          SendLeadEmail(e, d, r)
    \/ \E d \in BOOLEAN, r \in ClockReads(now) : TestEmail(d, r)
    \/ \E i \in Ids(leads) : MarkLeadReplied(i)
    \/ CheckFollowups
    \/ \E t \in Threads : LoopCheck(t)
    \/ \E t \in Threads : LoopScan(t)
    \/ \E t \in Threads : LoopWake(t)
    \/ \E s \in Scanners, d \in BOOLEAN : ScanSend(s, d)
    \/ \E s \in Scanners : ScanClear(s)

Spec == Init /\ [][Next]_vars

----------------------------------------------------------------------------
(* SpecBulk: the running service with the bulk send worker beside the      *)
(* handlers and the scans.                                                 *)

StatusFilters == {{}, {"found"}}

NextBulk ==
    \/ Next
    \/ \E f \in StatusFilters, x \in BOOLEAN : SendBulkEmails(f, x)
    \/ \E d \in BOOLEAN, r \in ClockReads(now) : BulkStep(d, r)

SpecBulk == Init /\ [][NextBulk]_vars

----------------------------------------------------------------------------
(* SpecSeq: the running service when scans do not overlap: a scan starts   *)
(* only when no other scan is in progress.                                 *)

NoScanInProgress == \A s \in Scanners : pc[s] \notin {"send", "clear"}

SeqCheckFollowups == NoScanInProgress /\ CheckFollowups

SeqLoopScan(t) == NoScanInProgress /\ LoopScan(t)

NextSeq ==
    \/ Tick
    \/ \E e \in Emails \cup {AddrBad}, d \in BOOLEAN, r \in ClockReads(now) :
          SendLeadEmail(e, d, r)
    \/ \E d \in BOOLEAN, r \in ClockReads(now) : TestEmail(d, r)
    \/ \E i \in Ids(leads) : MarkLeadReplied(i)
    \/ SeqCheckFollowups
    \/ \E t \in Threads : LoopCheck(t)
    \/ \E t \in Threads : SeqLoopScan(t)
    \/ \E t \in Threads : LoopWake(t)
    \/ \E s \in Scanners, d \in BOOLEAN : ScanSend(s, d)
    \/ \E s \in Scanners : ScanClear(s)

SpecSeq == Init /\ [][NextSeq]_vars

----------------------------------------------------------------------------
(* SpecSched: the scheduler object from its construction, under any        *)
(* sequence of start() and stop() calls.  No lead of the store is emailed, *)
(* so every scan finds nothing to do.                                      *)

\* FollowUpScheduler.__init__
InitSched ==
    /\ InitIdle
    /\ running = FALSE
    /\ thread = 0
    /\ pc = [s \in Scanners |-> IF s = Manual THEN "idle" ELSE "unborn"]
    /\ leads = StoredLeads
    /\ campaigns = StoredCampaigns
    /\ NoCall

NextSched ==
    \/ Start
    \/ Stop
    \/ CheckFollowups
    \/ \E t \in Threads : LoopCheck(t)
    \/ \E t \in Threads : LoopScan(t)
    \/ \E t \in Threads : LoopWake(t)

SpecSched == InitSched /\ [][NextSched]_vars

----------------------------------------------------------------------------
(* SpecLoop: the scheduler object from its construction, under any         *)
(* sequence of start() and stop() calls, with a store one of whose leads   *)
(* was mailed FOLLOW_UP_DAYS ago, and with scans whose store transactions  *)
(* may raise.  SpecLoopFair adds that a thread that can take a step takes  *)
(* one.                                                                    *)

\* start() calls made on the scheduler object
MaxLoops == 2

DueLeads ==
    UpdateLeadStatus(StoredLeads, AddrA, "emailed", InitialBody, <<0, 0, 0>>)

InitLoop ==
    /\ now = FOLLOW_UP_DAYS
    /\ InitScanners
    /\ bulk = <<>>
    /\ count_tasks = {}
    /\ fu_count = [e \in Emails |-> 0]
    /\ running = FALSE
    /\ thread = 0
    /\ pc = [s \in Scanners |-> IF s = Manual THEN "idle" ELSE "unborn"]
    /\ leads = DueLeads
    /\ campaigns = StoredCampaigns
    /\ NoCall

\* the steps of the loop thread t
ThreadStep(t) ==
    \/ LoopCheck(t)
    \/ LoopScan(t)
    \/ ScanReadRaises(t)
    \/ LoopWake(t)
    \/ \E d \in BOOLEAN : ScanSend(t, d)
    \/ ScanClear(t)
    \/ ScanClearRaises(t)

NextLoop ==
    \/ thread < MaxLoops /\ Start
    \/ Stop
    \/ CheckFollowups
    \/ CheckFollowupsRaises
    \/ \E d \in BOOLEAN : ScanSend(Manual, d)
    \/ ScanClear(Manual)
    \/ ScanClearRaises(Manual)
    \/ \E t \in Threads : ThreadStep(t)

SpecLoop == InitLoop /\ [][NextLoop]_vars

SpecLoopFair == SpecLoop /\ \A t \in Threads : WF_vars(ThreadStep(t))

----------------------------------------------------------------------------
(* SpecDiscover: discovery runs against an empty store.                    *)

InitDiscover ==
    /\ InitIdle
    /\ InitStarted
    /\ leads = <<>>
    /\ campaigns = <<>>
    /\ NoCall

NextDiscover ==
    \/ \E r \in CampaignIds \cup {None}, c \in CampaignIds,
          items \in SeqsUpTo(ResultItems, MaxBatch) : DiscoverLeads(r, c, items)
    \/ \E c \in CampaignIds : RunCountTask(c)

SpecDiscover == InitDiscover /\ [][NextDiscover]_vars

----------------------------------------------------------------------------
(* SpecStore: discovery runs, their background count updates and the       *)
(* deletion handlers, from an empty store.                                 *)

\* ids a DELETE request may name: those of the stored leads and one more
LeadIdsAsked == Ids(leads) \cup {NextLeadId(leads)}

\* row ids are left for a further discovery run
IdsLeft == NextLeadId(leads) <= MaxLeadId

NextStore ==
    \/ /\ IdsLeft
       /\ \E r \in CampaignIds \cup {None}, c \in CampaignIds,
             items \in SeqsUpTo(ResultItems, MaxBatch) : DiscoverLeads(r, c, items)
    \/ \E c \in CampaignIds : RunCountTask(c)
    \/ \E i \in LeadIdsAsked : DeleteLead(i)
    \/ DeleteAllLeads
    \/ \E c \in CampaignIds : DeleteCampaign(c)

SpecStore == InitDiscover /\ [][NextStore]_vars

----------------------------------------------------------------------------
(* SpecBatch: one run of the loop of discover_leads over a list of search  *)
(* results, against a store that is empty or holds a lead already mailed.  *)

\* search results one run of the loop may be given
MaxResults == 3

\* a store with one lead that has been mailed
MailedStore ==
    UpdateLeadStatus(AddLead(<<>>, AddrA, "c1"), AddrA, "emailed", InitialBody, <<0, 0, 0>>)

BatchStores == {<<>>, MailedStore}

BatchItems ==
    {ResultItem("", TRUE, AddrA, "no", "true"), ResultItem("u", FALSE, AddrA, "no", "true"),
     ResultItem("u", TRUE, AddrA, "scrape", "true"), ResultItem("u", TRUE, NoEmail, "no", "true")}
    \cup {ResultItem("u", TRUE, e, "no", v) :
             e \in {AddrA, AddrB}, v \in {"none", "true", "false", "raise"}}
    \cup {ResultItem("u", TRUE, e, "report", "true") : e \in {AddrA, AddrB}}

\* the variables of the service, which a function call leaves alone
InitRest ==
    /\ InitIdle
    /\ InitStarted
    /\ leads = <<>>
    /\ campaigns = <<>>

restVars == <<now, storeVars, schedVars, scanVars, bulk, fu_count>>

InitBatch ==
    /\ InitRest
    /\ call \in [store : BatchStores, results : SeqsUpTo(BatchItems, MaxResults),
                  campaign : {"c2"}]
    /\ ret = <<>>

ApplyBatch ==
    /\ ret = <<>>
    /\ ret' = <<RunBatch(call.store, call.results, call.campaign)>>
    /\ UNCHANGED <<call, restVars>>

NextBatch == ApplyBatch

SpecBatch == InitBatch /\ [][NextBatch]_vars

----------------------------------------------------------------------------
(* SpecSearch: one call of search_companies, for every configuration of    *)
(* the two providers and every answer they may give.                       *)

\* hits in one provider response
MaxHits == 2
\* largest max_results asked for
MaxAsk == 6

\* a hit of a provider, by whether it passes _is_valid_business_website
ScoredHit(kind, valid, score, business, matches, generic) ==
    [kind |-> kind, valid |-> valid, score |-> score, business |-> business,
     matches |-> matches, generic |-> generic]

\* a hit in whose text no term is found and which carries no score
Hit(kind, valid) == ScoredHit(kind, valid, 0, 0, 0, 0)

HitLists(kind) == SeqsUpTo({Hit(kind, v) : v \in BOOLEAN}, MaxHits)

PrimaryResponses ==
    [raises : {FALSE}, organic : HitLists("organic"), kg : {"none", "valid", "invalid"}]
    \cup {[raises |-> TRUE, organic |-> <<>>, kg |-> "none"]}

SecondaryResponses ==
    [raises : {FALSE}, status : {200}, results : HitLists("secondary")]
    \cup {[raises |-> FALSE, status |-> 500, results |-> <<>>],
          [raises |-> TRUE, status |-> 200, results |-> <<>>]}

InitSearch ==
    /\ InitRest
    /\ call \in [serpapi : BOOLEAN, tavily : BOOLEAN, query : {"q"},
                  max_results : 1..MaxAsk,
                  primary : PrimaryResponses, secondary : SecondaryResponses]
    /\ ret = <<>>

ApplySearch ==
    /\ ret = <<>>
    /\ ret' = <<SearchCompanies(call)>>
    /\ UNCHANGED <<call, restVars>>

NextSearch == ApplySearch

SpecSearch == InitSearch /\ [][NextSearch]_vars

----------------------------------------------------------------------------
(* SpecScore: one call of search_companies whose providers answer with at  *)
(* most one hit, for every count of terms found in an organic hit and      *)
(* every score of a hit of the secondary provider.                         *)

\* words of the query
MaxWords == 2

\* len(business_terms), len(generic_terms)
BusinessTerms == 7

GenericTerms == 7

OrganicHits ==
    {ScoredHit("organic", TRUE, 0, b, m, g) :
        b \in {0, 1, BusinessTerms}, m \in 0..MaxWords, g \in {0, 1, GenericTerms}}
    \cup {Hit("organic", FALSE)}

\* the score of a hit of the secondary provider, 0 when the hit has none
SecondaryHits ==
    {ScoredHit("secondary", TRUE, sc, 0, 0, 0) : sc \in 0..10}
    \cup {Hit("secondary", FALSE)}

ScoredPrimaryResponses ==
    [raises : {FALSE}, organic : SeqsUpTo(OrganicHits, 1),
     kg : {"none", "valid", "invalid"}]
    \cup {[raises |-> TRUE, organic |-> <<>>, kg |-> "none"]}

ScoredSecondaryResponses ==
    [raises : {FALSE}, status : {200}, results : SeqsUpTo(SecondaryHits, 1)]
    \cup {[raises |-> FALSE, status |-> 500, results |-> <<>>],
          [raises |-> TRUE, status |-> 200, results |-> <<>>]}

InitScore ==
    /\ InitRest
    /\ call \in [serpapi : BOOLEAN, tavily : BOOLEAN, query : {"q"},
                  max_results : 1..2,
                  primary : ScoredPrimaryResponses,
                  secondary : ScoredSecondaryResponses]
    /\ ret = <<>>

ApplyScore ==
    /\ ret = <<>>
    /\ ret' = <<SearchCompanies(call)>>
    /\ UNCHANGED <<call, restVars>>

NextScore == ApplyScore

SpecScore == InitScore /\ [][NextScore]_vars

----------------------------------------------------------------------------
(* SpecScrape: one call of scrape_website, for both kinds of site, with    *)
(* and without the primary provider, and every set of pages that would     *)
(* give usable content on either path.                                     *)

ScrapeCalls ==
    UNION {[restaurant : {r}, firecrawl_api_key : BOOLEAN, url_ok : {TRUE},
            fc_usable : SUBSET PageSet(PagesToScrape(r)),
            rq_usable : SUBSET PageSet(PagesToScrape(r))] : r \in BOOLEAN}
    \cup [restaurant : BOOLEAN, firecrawl_api_key : BOOLEAN, url_ok : {FALSE},
           fc_usable : {{}}, rq_usable : {{}}]

InitScrape ==
    /\ InitRest
    /\ call \in ScrapeCalls
    /\ ret = <<>>

ApplyScrape ==
    /\ ret = <<>>
    /\ ret' = <<ScrapeWebsite(call)>>
    /\ UNCHANGED <<call, restVars>>

NextScrape == ApplyScrape

SpecScrape == InitScrape /\ [][NextScrape]_vars

----------------------------------------------------------------------------
(* SpecExtract: one call of _extract_info_from_content on the base address *)
(* that _normalize_url gives (scheme://host), for hosts of up to MaxLabels *)
(* labels and every outcome of the generative call.                        *)

MaxLabels == 3

Labels ==
    {<<"w", "w", "w">>, <<"a">>, <<"m", "y", "w", "w", "w">>,
     <<"a", "c", "m", "e", "-", "w", "i", "d", "g", "e", "t", "s">>, <<"c", "o", "m">>, <<"A", "b">>}

RECURSIVE JoinLabels(_)
JoinLabels(ls) ==
    IF Len(ls) = 1 THEN ls[1] ELSE ls[1] \o <<".">> \o JoinLabels(Tail(ls))

Hosts == {JoinLabels(ls) : ls \in SeqsUpTo(Labels, MaxLabels) \ {<<>>}}

Schemes == {<<"h", "t", "t", "p">>, <<"h", "t", "t", "p", "s">>}

\* f"{parsed.scheme}://{parsed.netloc}"
BaseUrl(scheme, host) == scheme \o <<":", "/", "/">> \o host

NoRecord == [company_name |-> <<>>, email |-> <<>>, website_url |-> <<>>]

LlmRecords ==
    [company_name : {<<"X">>}, email : {<<>>, NullText, AddrA},
     website_url : {<<>>, <<"u">>}]

ExtractCalls ==
    {[host |-> h, base_url |-> BaseUrl(sc, h), scraped_pages |-> pages,
      llm |-> o.llm, record |-> o.record, found |-> o.found] :
        h \in Hosts, sc \in Schemes,
        pages \in {<<>>, <<<<"/", "c", "o", "n", "t", "a", "c", "t">>>>},
        o \in [llm : {"raises", "unparseable", "not_object"},
               record : {NoRecord}, found : {NoEmail}]
              \cup [llm : {"object"}, record : LlmRecords,
                    found : {NoEmail, AddrB}]}

InitExtract ==
    /\ InitRest
    /\ call \in ExtractCalls
    /\ ret = <<>>

ApplyExtract ==
    /\ ret = <<>>
    /\ ret' = <<ExtractInfoFromContent(call)>>
    /\ UNCHANGED <<call, restVars>>

NextExtract == ApplyExtract

SpecExtract == InitExtract /\ [][NextExtract]_vars

----------------------------------------------------------------------------
(* SpecValidate: one call of validate_lead, for every shape of the three   *)
(* keys it reads and every outcome of the generative call.                 *)

Answers ==
    {<<"y", "e", "s">>, <<"n", "o">>, <<" ", "Y", "e", "s", ".", " ">>, <<"N", "O">>,
     <<"y">>, <<"m", "a", "y", "b", "e">>, <<>>}

ValidateCalls ==
    [company_name : {Missing, Null, Text(<<>>), Text(<<"X">>)},
     description : {Missing, Null, Text(<<>>), Text(<<"d">>)},
     website_url : {Missing, Null, Text(<<"u">>)},
     llm : {<<"raises">>} \cup {<<"answer", a>> : a \in Answers}]

InitValidate ==
    /\ InitRest
    /\ call \in ValidateCalls
    /\ ret = <<>>

ApplyValidate ==
    /\ ret = <<>>
    /\ ret' = <<ValidateLead(call)>>
    /\ UNCHANGED <<call, restVars>>

NextValidate == ApplyValidate

SpecValidate == InitValidate /\ [][NextValidate]_vars

----------------------------------------------------------------------------
(* SpecOrder: one run of the loop of discover_leads over the first         *)
(* max_leads of the search results.                                        *)

\* Variant: the loop runs over every search result.
BatchSlice_All(results, max_leads) == results

\* search_results[:request.max_leads]
BatchSlice(results, max_leads) ==
    SubSeq(results, 1, Min(Len(results), max_leads))

InitOrder ==
    /\ InitRest
    /\ call \in [store : BatchStores, results : SeqsUpTo(ResultItems, MaxResults),
                  max_leads : 1..MaxResults, campaign : {"c2"}]
    /\ ret = <<>>

ApplyOrder ==
    /\ ret = <<>>
    /\ ret' = <<RunBatch(call.store, BatchSlice(call.results, call.max_leads),
                         call.campaign)>>
    /\ UNCHANGED <<call, restVars>>

NextOrder == ApplyOrder

SpecOrder == InitOrder /\ [][NextOrder]_vars

----------------------------------------------------------------------------
(* SpecFilter: one call of _is_valid_business_website on a URL made of a   *)
(* scheme (or none), a host and a path.                                    *)

UrlSchemes == {<<>>, <<"h", "t", "t", "p", ":", "/", "/">>, <<"h", "t", "t", "p", "s", ":", "/", "/">>}

UrlHosts ==
    {<<"h", "o", "s", "t", ".", "c", "o", "m">>, <<"w", "w", "w", ".", "h", "o", "s", "t", ".", "c", "o", "m">>, <<"H", "o", "s", "t", ".", "C", "O", "M">>,
     <<"r", "e", "d", "d", "i", "t", ".", "c", "o", "m">>, <<"o", "l", "d", ".", "r", "e", "d", "d", "i", "t", ".", "c", "o", "m">>,
     <<"s", "h", "o", "p", ".", "w", "i", "x", "s", "i", "t", "e", ".", "c", "o", "m">>}

UrlPaths ==
    {<<>>, <<"/">>, <<"/", "b", "l", "o", "g">>, <<"/", "b", "l", "o", "g", "/">>, <<"/", "B", "l", "o", "g", "/">>, <<"/", "n", "e", "w", "s", "/">>,
     <<"/", "b", "l", "o", "g", "/", "m", "y", "-", "p", "o", "s", "t">>, <<"/", "m", "e", "n", "u", "/", "l", "u", "n", "c", "h", "/">>,
     <<"/", "g", "u", "i", "d", "e", "s", "/", "2", "0", "2", "4", "/", "b", "e", "s", "t">>}

FilterCalls == [scheme : UrlSchemes, host : UrlHosts, path : UrlPaths]

UrlOf(c) == c.scheme \o c.host \o c.path

InitFilter ==
    /\ InitRest
    /\ call \in FilterCalls
    /\ ret = <<>>

ApplyFilter ==
    /\ ret = <<>>
    /\ ret' = <<IsValidBusinessWebsite(UrlOf(call))>>
    /\ UNCHANGED <<call, restVars>>

NextFilter == ApplyFilter

SpecFilter == InitFilter /\ [][NextFilter]_vars

----------------------------------------------------------------------------
(* SpecFetch: the requests of one _deep_scrape_with_firecrawl or           *)
(* _deep_scrape_with_requests call, for every list of pages and every      *)
(* outcome of each request.  call holds the arguments and ret the fetch.   *)

\* the lists of pages a scrape may be given: the first pages of a list of
\* pages_to_scrape, or none
PageLists ==
    {SubSeq(PagesToScrape(r), 1, Min(n, Len(PagesToScrape(r)))) :
        r \in BOOLEAN, n \in 0..Len(RestaurantPages)}

InitFetch ==
    /\ InitRest
    /\ call \in [urls : PageLists, path : {"primary", "direct"}]
    /\ ret = <<StartFetch(call.urls)>>

FirecrawlStep(outcome) ==
    /\ call.path = "primary"
    /\ ~ret[1].done
    /\ ret' = <<FirecrawlAttempt(ret[1], call.urls, outcome)>>
    /\ UNCHANGED <<call, restVars>>

DirectStep(outcome) ==
    /\ call.path = "direct"
    /\ ~ret[1].done
    /\ ret' = <<DirectRequest(ret[1], call.urls, outcome)>>
    /\ UNCHANGED <<call, restVars>>

NextFetch ==
    \/ \E outcome \in FirecrawlOutcomes : FirecrawlStep(outcome)
    \/ \E outcome \in DirectOutcomes : DirectStep(outcome)

SpecFetch == InitFetch /\ [][NextFetch]_vars

----------------------------------------------------------------------------
(* Properties *)

\* str.lower() on the letters of the model's addresses
LowerChar(c) == IF c = "A" THEN "a" ELSE IF c = "B" THEN "b" ELSE IF c = "X" THEN "x" ELSE c

Normalized(e) == [k \in 1..Len(e) |-> LowerChar(e[k])]

\* C1: the store never holds two leads whose addresses are equal after
\* case-insensitive normalization.
C1_NoTwoLeadsWithSameNormalizedAddress ==
    \A i, j \in Ids(leads) :
        i # j => Normalized(leads[i].email) # Normalized(leads[j].email)

\* position of a status in found -> emailed -> followed_up -> replied
Rank(status) ==
    CASE status = "found" -> 0
      [] status = "emailed" -> 1
      [] status = "followed_up" -> 2
      [] status = "replied" -> 3

\* C2: no step moves the status of a lead to an earlier stage of
\* found -> emailed -> followed_up -> replied.
C2_StatusNeverRegresses ==
    [][\A i \in Ids(leads) \cap Ids(leads') :
          Rank(leads'[i].status) >= Rank(leads[i].status)]_vars

IsReplied(r) == r.status = "replied" /\ r.has_replied

\* a step of scanner s inside process_followups
ScanStep(s) == pc[s] \in {"send", "clear"} /\ (pc'[s] # pc[s] \/ snap'[s] # snap[s])

\* C3: once mark_as_replied has committed, the lead stays replied with
\* has_replied true; in particular no step of a scan that read the lead
\* before the reply takes it out of status replied.
C3_ReplySurvivesConcurrentScan ==
    [][\A s \in Scanners : ScanStep(s) =>
          \A i \in Ids(leads) \cap Ids(leads') : IsReplied(leads[i]) => IsReplied(leads'[i])]_vars

\* C4: in every state, a lead with has_replied true has no follow_up_date.
C4_RepliedHasNoFollowUpDate ==
    \A i \in Ids(leads) : leads[i].has_replied => leads[i].follow_up_date = NoTime

\* the leads a scanner has read and not yet processed
Pending(s) == {snap[s][k] : k \in 1..Len(snap[s])}

InScan(s) == pc[s] \in {"send", "clear"}

\* the row of the lead a scanner is working on
RowOf(L, email) == L[FirstByEmail(L, email)]

C6_OverlappingScansSendOnce == \A e \in Emails : fu_count[e] < 2

\* C7: a scan selects only leads whose follow_up_date is not later than the
\* time of its read, and its steps send to and change only the lead they
\* selected, so a lead that was not yet due is neither mailed nor changed.
C7_NotYetDueLeadIsUntouched ==
    /\ [](\A s \in Scanners : InScan(s) =>
            \A r \in Pending(s) :
                r.follow_up_date # NoTime /\ r.follow_up_date <= scan_time[s])
    /\ [][\A s \in Scanners : ScanStep(s) =>
            /\ \A i \in Ids(leads) :
                  leads'[i] # leads[i] => leads[i].email = Head(snap[s]).email
            /\ \A e \in Emails :
                  fu_count'[e] # fu_count[e] => e = Head(snap[s]).email]_vars

\* A scan has sent a follow-up while another lead, emailed before the scan
\* and due after it, is as its send left it.
C7_Witness ==
    \E s \in Scanners, i \in Ids(leads) :
        /\ pc[s] = "clear"
        /\ leads[i].status = "emailed"
        /\ leads[i].sent_email_at < scan_time[s]
        /\ leads[i].follow_up_date > scan_time[s]
        /\ leads[i].last_contacted_at = leads[i].sent_email_at

\* C8: a lead that has a follow-up date has follow_up_date =
\* sent_email_at + FOLLOW_UP_DAYS, as a successful initial send at
\* sent_email_at is to leave it.
C8_FollowUpDateIsSentPlusWindow ==
    \A i \in Ids(leads) :
        leads[i].follow_up_date # NoTime =>
            leads[i].follow_up_date = leads[i].sent_email_at + FOLLOW_UP_DAYS

ActiveLoops == {t \in Threads : pc[t] \in {"check", "scan", "send", "clear", "sleep"}}

\* C10: after any sequence of start() and stop() calls at most one
\* background scan loop is active.
C10_AtMostOneActiveLoop == Cardinality(ActiveLoops) <= 1

\* C11: every campaign's lead_count equals the number of leads whose
\* campaign_id is that campaign.
C11_LeadCountMatchesLeads ==
    \A c \in DOMAIN campaigns :
        campaigns[c].lead_count = Cardinality(LeadsOfCampaign(leads, c))

\* C12: when delete_campaign finds the campaign, the campaign is gone
\* afterwards, no lead references it, and the leads of other campaigns and
\* the other campaign rows are as before.
C12_DeleteCampaignCascades ==
    [][\A c \in CampaignIds :
         (DeleteCampaign(c) /\ c \in DOMAIN campaigns) =>
            /\ c \notin DOMAIN campaigns'
            /\ LeadsOfCampaign(leads', c) = {}
            /\ \A i \in Ids(leads) \ LeadsOfCampaign(leads, c) :
                   i \in Ids(leads') /\ leads'[i] = leads[i]
            /\ Ids(leads') \subseteq Ids(leads)
            /\ DOMAIN campaigns' = DOMAIN campaigns \ {c}
            /\ \A d \in DOMAIN campaigns' : campaigns'[d] = campaigns[d]]_vars

\* A campaign that a discovery run had used has been deleted, its queued count
\* update still pending, while another campaign keeps its leads.
C12_Witness ==
    /\ "c1" \in count_tasks
    /\ "c1" \notin DOMAIN campaigns
    /\ "c2" \in DOMAIN campaigns
    /\ LeadsOfCampaign(leads, "c2") # {}
    /\ 1 \notin Ids(leads)

\* a result the loop gives up before it looks at the store
SkippedEarly(item) == item.url = "" \/ item.raises = "scrape" \/ ~item.data

KeptItem(item) == ~SkippedEarly(item)

RECURSIVE OutcomesOfKept(_, _)
\* the outcomes of the results that are not given up early
OutcomesOfKept(items, outcomes) ==
    IF items = <<>> THEN <<>>
    ELSE (IF KeptItem(Head(items)) THEN <<Head(outcomes)>> ELSE <<>>)
         \o OutcomesOfKept(Tail(items), Tail(outcomes))

\* C13: every result of a batch reaches an outcome, whatever the outcomes of
\* the results before it; a result is not attempted exactly when its URL
\* is empty; and the store and the outcomes of the other results are those
\* of the batch without the results that had no URL, no content or raised
\* while being scraped.
C13_NoItemStopsTheBatch ==
    ret # <<>> =>
        LET r == ret[1]
            items == call.results
            kept == SelectSeq(items, KeptItem)
        IN /\ Len(r.outcomes) = Len(items)
           /\ \A k \in 1..Len(items) :
                 /\ r.outcomes[k] = "no_url" <=> items[k].url = ""
                 /\ (items[k].url # "" /\ items[k].raises = "scrape") => r.outcomes[k] = "error"
                 /\ (items[k].url # "" /\ items[k].raises # "scrape" /\ ~items[k].data)
                        => r.outcomes[k] = "no_content"
                 /\ items[k].raises = "report" => r.outcomes[k] \in {"error", "duplicate"}
           /\ r.leads = ProcessItems(call.store, kept, call.campaign)
           /\ OutcomesOfKept(items, r.outcomes) = Outcomes(call.store, kept, call.campaign)

\* Three results of which only the second has no URL: the first and the third
\* were attempted and added.
C13_Witness ==
    /\ ret # <<>>
    /\ Len(call.results) = 3
    /\ call.results[1].url # "" /\ call.results[2].url = "" /\ call.results[3].url # ""
    /\ ret[1].outcomes = <<"added", "no_url", "added">>

\* a result that gets as far as the duplicate check
Resolves(item) ==
    item.url # "" /\ item.raises # "scrape" /\ item.data /\ item.email # NoEmail

\* C14: a result that resolves to an address the store already holds ends as
\* a duplicate and is not in the list of added leads, and every record the
\* store held before the batch is the same in every field after it.
C14_DuplicateLeavesRecordAlone ==
    ret # <<>> =>
        LET r == ret[1]
            items == call.results
        IN /\ \A i \in Ids(call.store) : i \in Ids(r.leads) /\ r.leads[i] = call.store[i]
           /\ \A k \in 1..Len(items) :
                 (Resolves(items[k]) /\ Exists(call.store, items[k].email)) =>
                     r.outcomes[k] = "duplicate"
           /\ \A j \in 1..Len(r.report) : ~Exists(call.store, r.report[j])
           /\ \A j, k \in 1..Len(r.report) : r.report[j] = r.report[k] => j = k
           /\ \A e \in Emails : Cardinality(IdsByEmail(r.leads, e)) <= 1

\* A batch met the address of the mailed lead and added another address.
C14_Witness ==
    /\ ret # <<>>
    /\ call.store = MailedStore
    /\ \E k \in 1..Len(call.results) :
          call.results[k].email = AddrA /\ ret[1].outcomes[k] = "duplicate"
    /\ ret[1].report = <<AddrB>>

\* the results with every verdict of the validator replaced by acceptance
AllAccepted(items) == [k \in 1..Len(items) |-> [items[k] EXCEPT !.verdict = "true"]]

\* C15: the leads a batch persists are those it would persist if the
\* validator accepted every result, and each is stored in status found under
\* the campaign of the batch.
C15_ValidatorIsSoftGate ==
    ret # <<>> =>
        LET r == ret[1]
            items == call.results
        IN /\ r.leads = ProcessItems(call.store, AllAccepted(items), call.campaign)
           /\ \A i \in Ids(r.leads) \ Ids(call.store) :
                 r.leads[i].status = "found" /\ r.leads[i].campaign_id = call.campaign
           /\ \A k \in 1..Len(items) :
                 (Resolves(items[k]) /\ r.outcomes[k] # "duplicate") =>
                     Exists(r.leads, items[k].email)

\* A batch has persisted a lead the validator rejected and one it failed on.
C15_Witness ==
    /\ ret # <<>>
    /\ \E j, k \in 1..Len(call.results) :
          /\ call.results[j].verdict = "false" /\ ret[1].outcomes[j] = "added"
          /\ call.results[k].verdict = "raise" /\ ret[1].outcomes[k] = "added"
    /\ Cardinality(Ids(ret[1].leads)) = Cardinality(Ids(call.store)) + 2

\* the provider answered with an error or with nothing usable
PrimaryFailed(c) == c.primary.raises \/ PrimaryResults(c.primary, c.max_results) = <<>>

SecondaryFailed(c) == c.secondary.raises \/ SecondaryResults(c.secondary, c.max_results) = <<>>

\* C16: a configured primary provider is called first; when it is not
\* configured, or fails or returns nothing, a configured secondary provider
\* is called; the placeholder set is returned only when no provider is
\* configured or every configured provider failed.
C16_ProviderFallbackOrder ==
    ret # <<>> =>
        LET r == ret[1]
            c == call
        IN /\ c.serpapi => (r.tried # <<>> /\ Head(r.tried) = "primary")
           /\ (c.tavily /\ (~c.serpapi \/ PrimaryFailed(c))) =>
                  \E k \in 1..Len(r.tried) : r.tried[k] = "secondary"
           /\ r.placeholder =>
                  /\ c.serpapi => PrimaryFailed(c)
                  /\ c.tavily => SecondaryFailed(c)

\* C17: with no provider configured, search_companies returns the placeholder
\* list, which is not empty and depends on the query and max_results only.
C17_PlaceholderWithoutBackend ==
    (ret # <<>> /\ ~call.serpapi /\ ~call.tavily) =>
        LET r == ret[1]
        IN /\ r.results # <<>>
           /\ Len(r.results) = Min(call.max_results, MockCap)
           /\ \A i \in 1..Len(r.results) :
                 /\ r.results[i].url = <<"example-company", i>>
                 /\ r.results[i].title = <<"Company", i, call.query>>
                 /\ r.results[i].content = call.query
                 /\ r.results[i].score = 9 - i

\* No provider is configured, one result is asked for and one is returned.
C17_Witness ==
    /\ ret # <<>>
    /\ ~call.serpapi /\ ~call.tavily
    /\ call.max_results = 1
    /\ Len(ret[1].results) = 1
    /\ ret[1].placeholder

\* whether page p gives usable content on a path the call can take
Yields(c, p) == (c.firecrawl_api_key /\ p \in c.fc_usable) \/ p \in c.rq_usable

\* the primary provider is not configured or gave no usable page
PrimaryGaveNothing(c) ==
    ~c.firecrawl_api_key
        \/ SuccessfulPages(PagesToScrape(c.restaurant), c.fc_usable) = <<>>

\* C18 as stated: scrape_website fails only if no page of the candidate
\* page set gives usable content on either path, and when exactly one
\* candidate page does, the result is a record built from that page.
C18_FailsOnlyIfNoCandidatePageUsable ==
    ret # <<>> =>
        LET r == ret[1]
            candidates == PageSet(PagesToScrape(call.restaurant))
            good == {p \in candidates : Yields(call, p)}
        IN /\ r.failed => good = {}
           /\ \A p \in candidates :
                 good = {p} => (~r.failed /\ r.scraped_pages = <<p>>)

\* C18 amended: scrape_website fails exactly when none of the pages it
\* reads (the homepage and the next two of the candidate list) gives usable
\* content on either path; when exactly one of them does, the result is a
\* record built from that page; and when the primary provider is not
\* configured or gave no usable page, the record is built on the direct
\* path from those same pages.
C18_FailsOnlyIfNoFetchedPageUsable ==
    ret # <<>> =>
        LET r == ret[1]
            urls == PagesToScrape(call.restaurant)
            fetched == {urls[k] : k \in 1..PageCap}
            good == {p \in fetched : Yields(call, p)}
        IN /\ r.failed <=> good = {}
           /\ \A p \in fetched :
                 good = {p} => (~r.failed /\ r.scraped_pages = <<p>>)
           /\ \A k \in 1..Len(r.scraped_pages) : r.scraped_pages[k] \in fetched
           /\ (PrimaryGaveNothing(call) /\ ~r.failed) =>
                 /\ r.path = "direct"
                 /\ PageSet(r.scraped_pages) = fetched \cap call.rq_usable

\* The primary provider is configured and finds nothing; the direct path
\* finds the second page of the list only, and the record is built from it.
C18_Witness ==
    /\ ret # <<>>
    /\ call.firecrawl_api_key
    /\ call.fc_usable = {}
    /\ call.rq_usable = {"/contact"}
    /\ ~ret[1].failed
    /\ ret[1].scraped_pages = <<"/contact">>
    /\ ret[1].path = "direct"

\* the domain of a host: the host without a leading "www."
SeedDomain(host) == IF StartsWith(host, Www) THEN Drop(host, Len(Www)) ELSE host

\* the first label of a domain: its text up to the first dot
FirstLabel(domain) ==
    IF \E k \in 1..Len(domain) : domain[k] = "."
    THEN SubSeq(domain, 1, (CHOOSE k \in 1..Len(domain) :
                               /\ domain[k] = "."
                               /\ \A j \in 1..(k - 1) : domain[j] # ".") - 1)
    ELSE domain

\* C19: when the generative call fails or its answer cannot be parsed,
\* _extract_info_from_content returns a record whose company_name is the
\* title-cased first label of the seed domain and is not empty, whose email
\* is contact@<domain>, and whose website_url, source_url and scraped_pages
\* are set.
C19_FallbackRecordFromDomain ==
    (ret # <<>> /\ call.llm # "object") =>
        LET r == ret[1]
            domain == SeedDomain(call.host)
        IN /\ r.company_name # <<>>
           /\ r.company_name = Title(FirstLabel(domain))
           /\ r.email = ContactAt \o domain
           /\ r.website_url = call.base_url
           /\ r.source_url = call.base_url
           /\ r.scraped_pages # <<>>

\* a key of the profile that carries no text
Blank(field) == field = Missing \/ field = Null \/ field = Text(<<>>)

\* the profile has a key that is present with a null value
HasNullKey(c) == Null \in {c.company_name, c.description, c.website_url}

\* C20: validate_lead never raises; it returns true when the profile has
\* neither a name nor a description, and true on any internal error (a key
\* of the profile present with a null value, a failing generative call);
\* otherwise it returns true exactly when the answer is affirmative.
C20_ValidateNeverRaisesDefaultsTrue ==
    ret # <<>> =>
        LET r == ret[1]
            c == call
            short == Blank(c.company_name) /\ Blank(c.description)
            failed == HasNullKey(c) \/ c.llm[1] = "raises"
        IN /\ ~r.raised
           /\ short => r.value
           /\ failed => r.value
           /\ (~short /\ ~failed) =>
                 (r.value <=> IsValid(Strip(Lower(c.llm[2]))))

\* the response of discover_leads: its keys are success, leads, campaign_id
\* and campaign_name; the outcomes of the results are printed only
BatchResponse(r, campaign) ==
    [success |-> TRUE, leads |-> r.report, campaign_id |-> campaign]

\* the addresses a batch has stored
StoredByBatch(before, after) ==
    {after[i].email : i \in Ids(after) \ Ids(before)}

\* C21: the response of a batch names every result that succeeded, and tells
\* for every skipped result why it was skipped: every address the batch
\* stored is in the response, and two batches of the same length that end
\* some result differently do not get the same response.
C21_ResponseNamesSuccessesAndSkipReasons ==
    ret # <<>> =>
        LET r == ret[1]
            response == BatchResponse(r, call.campaign)
        IN /\ StoredByBatch(call.store, r.leads)
                 = {response.leads[k] : k \in 1..Len(response.leads)}
           /\ \A other \in SeqsUpTo(BatchItems, MaxResults) :
                 LET o == RunBatch(call.store, other, call.campaign)
                 IN (Len(other) = Len(call.results)
                        /\ BatchResponse(o, call.campaign) = response)
                    => o.outcomes = r.outcomes

\* the positions of a scanner inside process_followups
ScanStates == {"scan", "send", "clear"}

\* C22: a scan that raises does not end the background loop, and the
\* exception does not leave process_followups: however a scan ends, the loop
\* thread goes to its interval sleep (a manual check returns), after the sleep
\* it tests the flag, and with the flag true it starts another scan; a loop
\* thread ends at the test of the flag only, with the flag false.
C22_FailingScanDoesNotEndLoop ==
    [][\A s \in Scanners :
         /\ (pc[s] # "dead" /\ pc'[s] = "dead") => (pc[s] = "check" /\ ~running')
         /\ (pc[s] \in ScanStates /\ pc'[s] \notin ScanStates) => pc'[s] = Returned(s)
         /\ (result'[s] = "raised" /\ result[s] # "raised") =>
                pc'[s] \in {Returned(s), "send"}
         /\ (pc[s] = "sleep" /\ pc'[s] # "sleep") => pc'[s] = "check"
         /\ (pc[s] = "check" /\ running /\ running' /\ pc'[s] # "check") =>
                pc'[s] = "scan"]_vars

\* The first transaction of a scan of the loop raised, the flag is still
\* true, and the loop thread is in its next scan.
C22_Witness ==
    \E t \in Threads :
        /\ running
        /\ t = thread
        /\ result[t] = "raised"
        /\ pc[t] = "send"

\* no loop thread is alive
NoLoopAlive == \A t \in Threads : pc[t] \in {"unborn", "dead"}

\* C23: once stop() has cleared the flag the loop starts no new scan, and
\* unless start() is called again every loop thread ends; stop() returns
\* whether or not the thread has ended.
C23_LoopEndsAfterStop ==
    /\ [][\A t \in Threads : (pc[t] = "check" /\ pc'[t] = "scan") => running]_vars
    /\ [][(running /\ ~running') => pc'[Manual] = "idle"]_vars
    /\ (~running) ~> (running \/ NoLoopAlive)

\* The flag is false, the one loop thread that was started has ended, and
\* one of its scans had sent a follow-up.
C23_Witness ==
    /\ ~running
    /\ thread = 1
    /\ pc[1] = "dead"
    /\ \E i \in Ids(leads) : leads[i].status = "followed_up"

\* C24: a lead whose status is followed_up has no follow_up_date, in every
\* state.
C24_FollowedUpHasNoFollowUpDate ==
    \A i \in Ids(leads) :
        leads[i].status = "followed_up" => leads[i].follow_up_date = NoTime

\* C25: a batch processes at most max_leads results, the first ones, and
\* the leads it stores are created in the order of their results: of two
\* leads of the batch, the one with the smaller row id comes from the
\* earlier result.
C25_LeadsCreatedInResultOrder ==
    ret # <<>> =>
        LET r == ret[1]
            n == Len(r.outcomes)
            new == Ids(r.leads) \ Ids(call.store)
            \* the result a lead of the batch was made from
            From(i) == {k \in 1..n : /\ call.results[k].email = r.leads[i].email
                                     /\ r.outcomes[k] \in {"added", "error"}
                                     /\ call.results[k].url # ""
                                     /\ call.results[k].raises # "scrape"}
        IN /\ n <= call.max_leads
           /\ n <= Len(call.results)
           /\ \A i \in new : From(i) # {}
           /\ \A i, j \in new :
                 i < j => \A p \in From(i), q \in From(j) : p < q

\* Three results that would each be stored, with max_leads = 2: the first
\* two are stored, in their order.
C25_Witness ==
    /\ ret # <<>>
    /\ call.store = <<>>
    /\ call.max_leads = 2
    /\ Len(call.results) = 3
    /\ \A k \in 1..3 : call.results[k].url = "u" /\ call.results[k].data
                           /\ call.results[k].raises = "no"
    /\ call.results[1].email = AddrB
    /\ call.results[2].email = AddrA
    /\ call.results[3].email = AddrUpperA
    /\ ret[1].leads[1].email = AddrB
    /\ ret[1].leads[2].email = AddrA
    /\ Ids(ret[1].leads) = {1, 2}

\* C26: on every provider path search_companies returns at most
\* max_results results, each of which passed the exclusion filter.
C26_AtMostMaxResultsAllFiltered ==
    ret # <<>> =>
        LET r == ret[1]
        IN /\ Len(r.results) <= call.max_results
           /\ \A k \in 1..Len(r.results) : r.results[k].valid

\* C27: every result search_companies returns has a score between 0.1 and
\* 1.0, and the score of an organic result of the primary provider is
\* 1.0 + 0.2 per business term + 0.1 per query word in the title - 0.1 per
\* generic term, clamped to that range.
C27_ScoresWithinRange ==
    ret # <<>> =>
        LET r == ret[1]
        IN \A k \in 1..Len(r.results) :
              LET x == r.results[k]
              IN /\ 1 <= x.score /\ x.score <= 10
                 /\ x.kind = "organic" =>
                       x.score = Clamp(10 + 2 * x.business + x.matches - x.generic)

\* the URL has one of the excluded domains in it
HasExcludedDomain(c) ==
    \E domain \in ExcludedDomains : Contains(Lower(UrlOf(c)), domain)

\* the path is one of the excluded segments and nothing else
IsSectionLanding(c) == Lower(c.path) \in ExcludedPaths

\* the path has one of the excluded segments and something after it
IsBelowSection(c) ==
    \E path \in ExcludedPaths :
        Contains(Lower(c.path), path) /\ Lower(c.path) # path

\* C28: _is_valid_business_website refuses a URL with an excluded domain in
\* it; it refuses a URL whose path goes below an excluded segment; and it
\* accepts a URL with a scheme whose path is such a segment alone (such as
\* https://host/blog/) when no excluded domain is in it.
C28_SectionLandingPageAccepted ==
    ret # <<>> =>
        /\ HasExcludedDomain(call) => ~ret[1]
        /\ (call.scheme # <<>> /\ IsBelowSection(call)) => ~ret[1]
        /\ (call.scheme # <<>> /\ IsSectionLanding(call) /\ ~HasExcludedDomain(call))
               => ret[1]

\* the requests made for page u
TimesAsked(asked, u) == Cardinality({k \in 1..Len(asked) : asked[k] = u})

\* the place of page u in the list
PlaceOf(urls, u) == CHOOSE k \in 1..Len(urls) : urls[k] = u

\* C29: a fetch on the primary path requests the homepage first and then at
\* most two more pages, each at most twice, six requests at most; a fetch on
\* the direct path requests at most the same three pages, once each.  Pages
\* are requested in the order of the list.
C29_RequestsAreBounded ==
    LET asked == ret[1].asked
        urls == call.urls
        first == {urls[k] : k \in 1..Min(Len(urls), 3)}
    IN /\ asked # <<>> => asked[1] = urls[1]
       /\ \A k \in 1..Len(asked) : asked[k] \in first
       /\ \A k \in 1..(Len(asked) - 1) :
             PlaceOf(urls, asked[k]) <= PlaceOf(urls, asked[k + 1])
       /\ call.path = "primary" =>
             /\ Len(asked) <= 6
             /\ \A u \in first : TimesAsked(asked, u) <= 2
       /\ call.path = "direct" =>
             /\ Len(asked) <= 3
             /\ \A u \in first : TimesAsked(asked, u) <= 1

\* Every request of a fetch of three pages on the primary path timed out:
\* six requests were made.
C29_Witness ==
    /\ call.path = "primary"
    /\ ret[1].done
    /\ Len(ret[1].asked) = 6
    /\ ret[1].successful = <<>>

\* C30: on the primary path, a first attempt that meets a timeout or a
\* network error waits 1, doubles the delay and tries the page again; a
\* first attempt that meets a 429 waits 2 and tries the page once more; an
\* error that is not retried ends the page with no wait; and when the
\* second attempt fails the fetch goes to the next page with no wait.
C30_AttemptStateMachine ==
    [][(call.path = "primary" /\ ret' # ret) =>
         LET st == ret[1]
             nx == ret'[1]
             retried == nx.i = st.i /\ nx.attempt = st.attempt + 1 /\ ~nx.done
             skipped == nx.i = st.i + 1 /\ nx.attempt = 0 /\ nx.wait = 0
                            /\ nx.retry_delay = 1
         IN /\ (st.attempt = 0 /\ nx.last \in {"timeout", "network"}) =>
                   (retried /\ nx.wait = 1 /\ nx.retry_delay = 2)
            /\ (st.attempt = 0 /\ nx.last = "status429") =>
                   (retried /\ nx.wait = 2)
            /\ nx.last = "error" => skipped
            /\ (st.attempt = 1 /\ nx.last # "ok") => skipped
            /\ nx.attempt <= 1]_vars

\* A first attempt met a 429: the fetch has slept 2 and is at the second
\* attempt of the same page.
C30_Witness ==
    /\ call.path = "primary"
    /\ ret[1].last = "status429"
    /\ ret[1].wait = 2
    /\ ret[1].attempt = 1
    /\ ret[1].i = 2

====
